---- MODULE Spec2Model ----
(***************************************************************************)
(* The /analyze request path of AI_STPA_Risk_Analysis: the Flask view      *)
(* analyze() of app.py and analyze_system() of stpa_agent.py, one step per *)
(* statement, for one request (Spec) and for several requests in flight    *)
(* at once (ConcSpec).                                                     *)
(*                                                                         *)
(* A text (a Python str) is a sequence of lexical tokens: "" is << >>,     *)
(* "not json" is <<"not", "json">>, "[1]" is <<"[", "1", "]">>.  A JSON    *)
(* value is a record tagged by its field t.                                *)
(***************************************************************************)
EXTENDS Integers, Sequences, FiniteSets, TLC

\* Bounds of the model.
MaxTextLen == 2
NumRequests == 2

(***************************************************************************)
(* Values                                                                  *)
(***************************************************************************)
NoneVal == [t |-> "unset"]

JStr(s) == [t |-> "str", s |-> s]
JNum(lex) == [t |-> "num", lex |-> lex]
JBool(b) == [t |-> "bool", b |-> b]
JNull == [t |-> "null"]
JList(items) == [t |-> "list", items |-> items]
JObj(members) == [t |-> "obj", members |-> members]

EmptyDict == [k \in {} |-> JNull]

\* d[key] = value on a Python dict: a repeated key keeps the last value.
DictSet(d, key, value) ==
    [k \in DOMAIN d \cup {key} |-> IF k = key THEN value ELSE d[k]]

(***************************************************************************)
(* json.loads on a text: the grammar of Python's decoder, which also       *)
(* accepts the literals NaN, Infinity and -Infinity.                       *)
(***************************************************************************)
StrLit ==
    [tok \in {"\"system_losses\"", "\"associated_hazards\"",
              "\"unsafe_control_actions\"", "\"L1\"", "\"H1\"", "\"U1\"",
              "\"hazard\"", "\"\""} |->
        CASE tok = "\"system_losses\"" -> <<"system_losses">>
          [] tok = "\"associated_hazards\"" -> <<"associated_hazards">>
          [] tok = "\"unsafe_control_actions\"" -> <<"unsafe_control_actions">>
          [] tok = "\"L1\"" -> <<"L1">>
          [] tok = "\"H1\"" -> <<"H1">>
          [] tok = "\"U1\"" -> <<"U1">>
          [] tok = "\"hazard\"" -> <<"hazard">>
          [] tok = "\"\"" -> << >>]

NumLit == {"1", "0"}

\* The float constants Python's decoder takes beyond RFC 8259.
PyConstLit == {"NaN", "Infinity", "-Infinity"}

ParseFail == [ok |-> FALSE]

ParseOk(val, end) == [ok |-> TRUE, val |-> val, end |-> end]

RECURSIVE ParseValue(_, _, _)
RECURSIVE ParseArrayRest(_, _, _, _)
RECURSIVE ParseObjectRest(_, _, _, _)

\* One value starting at token i; pyconst says whether NaN & co. are taken.
ParseValue(s, i, pyconst) ==
    IF i > Len(s) THEN ParseFail
    ELSE LET tok == s[i] IN
        CASE tok \in DOMAIN StrLit -> ParseOk(JStr(StrLit[tok]), i + 1)
          [] tok \in NumLit -> ParseOk(JNum(tok), i + 1)
          [] tok \in PyConstLit ->
                IF pyconst THEN ParseOk(JNum(tok), i + 1) ELSE ParseFail
          [] tok = "null" -> ParseOk(JNull, i + 1)
          [] tok = "true" -> ParseOk(JBool(TRUE), i + 1)
          [] tok = "false" -> ParseOk(JBool(FALSE), i + 1)
          [] tok = "[" ->
                IF i + 1 <= Len(s) /\ s[i + 1] = "]"
                THEN ParseOk(JList(<< >>), i + 2)
                ELSE ParseArrayRest(s, i + 1, << >>, pyconst)
          [] tok = "{" ->
                IF i + 1 <= Len(s) /\ s[i + 1] = "}"
                THEN ParseOk(JObj(EmptyDict), i + 2)
                ELSE ParseObjectRest(s, i + 1, EmptyDict, pyconst)
          [] OTHER -> ParseFail

\* After "[" or ",": a value, then "," or "]".
ParseArrayRest(s, i, acc, pyconst) ==
    LET r == ParseValue(s, i, pyconst) IN
    IF ~r.ok THEN ParseFail
    ELSE IF r.end > Len(s) THEN ParseFail
    ELSE IF s[r.end] = "]" THEN ParseOk(JList(Append(acc, r.val)), r.end + 1)
    ELSE IF s[r.end] = ","
         THEN ParseArrayRest(s, r.end + 1, Append(acc, r.val), pyconst)
    ELSE ParseFail

\* After "{" or ",": a string key, ":", a value, then "," or "}".
ParseObjectRest(s, i, acc, pyconst) ==
    IF i + 1 > Len(s) THEN ParseFail
    ELSE IF s[i] \notin DOMAIN StrLit \/ s[i + 1] # ":" THEN ParseFail
    ELSE LET r == ParseValue(s, i + 2, pyconst) IN
        IF ~r.ok THEN ParseFail
        ELSE IF r.end > Len(s) THEN ParseFail
        ELSE IF s[r.end] = "}"
             THEN ParseOk(JObj(DictSet(acc, StrLit[s[i]], r.val)), r.end + 1)
        ELSE IF s[r.end] = ","
             THEN ParseObjectRest(s, r.end + 1,
                                  DictSet(acc, StrLit[s[i]], r.val), pyconst)
        ELSE ParseFail

\* A whole document: one value and nothing after it.
ParseDocument(text, pyconst) ==
    LET r == ParseValue(text, 1, pyconst) IN
    IF r.ok /\ r.end = Len(text) + 1 THEN r ELSE ParseFail

\* json.loads(text): ok, or JSONDecodeError.
JsonLoads(text) == ParseDocument(text, TRUE)


(***************************************************************************)
(* Inputs: request bodies and what the inference service may answer        *)
(***************************************************************************)
Key(name) == <<name>>

Tokens ==
    {"{", "}", "[", "]", ":", ",", "\"L1\"", "1", "null", "true", "NaN",
     "not", "json"}

ExampleText ==
    <<"{", "\"system_losses\"", ":", "[", "\"L1\"", "]", ",",
      "\"associated_hazards\"", ":", "[", "\"H1\"", "]", ",",
      "\"unsafe_control_actions\"", ":", "[", "\"U1\"", "]", "}">>

ExampleObject ==
    JObj([k \in {Key("system_losses"), Key("associated_hazards"),
                 Key("unsafe_control_actions")} |->
            CASE k = Key("system_losses") -> JList(<<JStr(<<"L1">>)>>)
              [] k = Key("associated_hazards") -> JList(<<JStr(<<"H1">>)>>)
              [] k = Key("unsafe_control_actions") -> JList(<<JStr(<<"U1">>)>>)])

NotJsonText == <<"not", "json">>

SpecimenTexts ==
    {ExampleText,
     <<"{", "\"hazard\"", ":", "\"H1\"", "}">>,
     <<"{", "\"L1\"", ":", "1", ",", "\"L1\"", ":", "null", "}">>,
     <<"{", "\"system_losses\"", ":", "[", "\"L1\"", "]">>,
     <<"[", "1", ",", "]">>,
     <<"[", "\"L1\"", ",", "1", "]">>,
     <<"-Infinity">>}

AllTexts ==
    UNION {[1..n -> Tokens] : n \in 0..MaxTextLen} \cup SpecimenTexts

ConcTexts == {ExampleText, NotJsonText}

BrakingText == <<"autonomous", "braking", "system">>

Descriptions == {JStr(<< >>), JStr(BrakingText), JNum("1"), JNull}

\* What request.get_json() is given.
JsonBody(value) == [kind |-> "json", value |-> value]

AllBodies ==
    {JsonBody(JObj(DictSet(EmptyDict, Key("description"), d))) :
        d \in Descriptions}
    \cup {JsonBody(JObj(EmptyDict)),
          JsonBody(JObj(DictSet(EmptyDict, Key("system"), JStr(BrakingText)))),
          JsonBody(JList(<< >>)), JsonBody(JNull), JsonBody(JStr(BrakingText)),
          [kind |-> "malformed"], [kind |-> "no_json_mimetype"]}

ConcBodies ==
    {JsonBody(JObj(DictSet(EmptyDict, Key("description"), JStr(BrakingText)))),
     JsonBody(JObj(EmptyDict))}

\* A reply body that response.json() cannot decode (an empty body, HTML).
NonJsonBody == [kind |-> "nonjson", value |-> NoneVal]

\* The body of an HTTP reply of the inference service.
GenerateReply(response) ==
    JsonBody(JObj(DictSet(EmptyDict, Key("response"), response)))

ReplyBodies(texts) ==
    {GenerateReply(JStr(t)) : t \in texts}
    \cup {GenerateReply(JNum("1")), GenerateReply(JNull),
          GenerateReply(JList(<< >>)),
          JsonBody(JObj(EmptyDict)),
          JsonBody(JObj(DictSet(EmptyDict, Key("error"), JStr(<<"model">>)))),
          JsonBody(JList(<< >>)), JsonBody(JNull),
          NonJsonBody}

HttpReply(status, b) == [kind |-> "http", status |-> status, body |-> b]

ExcReply(cause) == [kind |-> "exc", cause |-> cause]

AllReplies ==
    {ExcReply(<<"Connection refused">>), ExcReply(<<"Read timed out">>)}
    \cup {HttpReply(200, b) : b \in ReplyBodies(AllTexts)}
    \cup {HttpReply(st, b) : st \in {201, 304, 404, 503},
                             b \in ReplyBodies(ConcTexts)}

ConcReplies ==
    {ExcReply(<<"Connection refused">>),
     HttpReply(200, GenerateReply(JStr(ExampleText))),
     HttpReply(200, GenerateReply(JStr(NotJsonText))),
     HttpReply(200, JsonBody(JObj(EmptyDict))),
     HttpReply(200, NonJsonBody)}


(***************************************************************************)
(* State: one entry per request                                            *)
(***************************************************************************)
VARIABLES
    pc,             \* where the request's handler stands
    body,           \* the HTTP request body as it arrived
    data,           \* app.py: data
    description,    \* app.py: description, and analyze_system's parameter
    sent,           \* the POSTs this call has issued to the inference service
    reply,          \* what the inference service did with this call's POST
    parsedBody,     \* whether response.json() was called on the reply
    output,         \* stpa_agent.py: output
    parsed_output,  \* stpa_agent.py: parsed_output
    result,         \* what analyze_system returned
    raised,         \* the exception that left the view, "" when none
    http            \* the HTTP response of /analyze

vars ==
    <<pc, body, data, description, sent, reply, parsedBody, output,
      parsed_output, result, raised, http>>

SoloRequests == {1}

ConcRequests == 1..NumRequests

(***************************************************************************)
(* app.py                                                                  *)
(***************************************************************************)
\* data.get(key, default)
DictGet(d, key, default) ==
    IF key \in DOMAIN d.members THEN d.members[key] ELSE default

\* jsonify(result): a 200 response carrying the envelope.
Jsonified(res) == [status |-> 200, json |-> res]

\* What Flask answers when the view is left by an exception or an abort.
ErrorResponse(status) == [status |-> status]

(***************************************************************************)
(* stpa_agent.py                                                           *)
(***************************************************************************)
\* The f-string: the description between the fixed parts of the template.
Prompt(d) ==
    <<"Perform a Systems-Theoretic Process Analysis (STPA) for the following system:",
      d,
      "List the following in JSON format with keys \"system_losses\", \"associated_hazards\", and \"unsafe_control_actions\".">>

GeneratePayload(prompt) ==
    [url |-> "http://localhost:11434/api/generate", model |-> "mistral",
     prompt |-> prompt, stream |-> FALSE, format |-> "json"]

SendPostRetry(posts, payload) == Append(Append(posts, payload), payload)

\* requests.post: one request on the wire.
SendPost(posts, payload) == Append(posts, payload)

IsErrorStatus5xxOnly(status) == 500 <= status /\ status < 600

\* response.raise_for_status(): HTTPError for 4xx and 5xx.
IsErrorStatus(status) == 400 <= status /\ status < 600

\* str(e) of the HTTPError.
HTTPErrorText(status) ==
    <<ToString(status),
      IF status < 500 THEN "Client Error" ELSE "Server Error">>

\* str(e) of requests' JSONDecodeError for a body that is not JSON.
BodyDecodeErrorText == <<"Expecting value: line 1 column 1 (char 0)">>

CommunicationErrorAsText(cause) ==
    JStr(<<"Communication with Ollama failed: ">> \o cause)

\* {"error": f"Communication with Ollama failed: {e}"}
CommunicationError(cause) ==
    JObj(DictSet(EmptyDict, Key("error"),
                 JStr(<<"Communication with Ollama failed: ">> \o cause)))

\* {"error": "Failed to parse JSON from LLM", "raw_llm_output": output}
ParseError(out) ==
    JObj(DictSet(DictSet(EmptyDict, Key("error"),
                         JStr(<<"Failed to parse JSON from LLM">>)),
                 Key("raw_llm_output"), out))

ExpectedKeys ==
    {Key("system_losses"), Key("associated_hazards"),
     Key("unsafe_control_actions")}

ParsedOutputValidated(out) ==
    LET r == JsonLoads(out.s) IN
    IF r.ok /\ r.val.t = "obj" /\ ExpectedKeys \subseteq DOMAIN r.val.members
    THEN r.val
    ELSE ParseError(out)

\* try: json.loads(output) / except json.JSONDecodeError
ParsedOutput(out) ==
    LET r == JsonLoads(out.s) IN
    IF r.ok THEN r.val ELSE ParseError(out)

EnvelopeStripped(d, analysis) ==
    [input_description |-> IF d = JStr(<< >>) THEN JNull ELSE d,
     analysis |-> analysis]

\* {"input_description": description, "analysis": parsed_output}
Envelope(d, analysis) == [input_description |-> d, analysis |-> analysis]

ParsedOutputShared(r) ==
    LET set == {q \in DOMAIN parsed_output : parsed_output[q] # NoneVal} IN
    parsed_output[CHOOSE q \in set : \A p \in set : q <= p]

\* The local variable parsed_output of request r's call.
ParsedOutputOf(r) == parsed_output[r]


(***************************************************************************)
(* The steps of one request                                                *)
(***************************************************************************)
InitFor(requests) ==
    /\ pc = [r \in requests |-> "idle"]
    /\ body = [r \in requests |-> NoneVal]
    /\ data = [r \in requests |-> NoneVal]
    /\ description = [r \in requests |-> NoneVal]
    /\ sent = [r \in requests |-> << >>]
    /\ reply = [r \in requests |-> NoneVal]
    /\ parsedBody = [r \in requests |-> FALSE]
    /\ output = [r \in requests |-> NoneVal]
    /\ parsed_output = [r \in requests |-> NoneVal]
    /\ result = [r \in requests |-> NoneVal]
    /\ raised = [r \in requests |-> ""]
    /\ http = [r \in requests |-> NoneVal]

\* A client sends POST /analyze.
Arrive(r, bodies) ==
    /\ pc[r] = "idle"
    /\ \E b \in bodies : body' = [body EXCEPT ![r] = b]
    /\ pc' = [pc EXCEPT ![r] = "get_json"]
    /\ UNCHANGED <<data, description, sent, reply, parsedBody, output,
                   parsed_output, result, raised, http>>

\* data = request.get_json()
GetJson(r) ==
    /\ pc[r] = "get_json"
    /\ \/ /\ body[r].kind = "json"
          /\ data' = [data EXCEPT ![r] = body[r].value]
          /\ pc' = [pc EXCEPT ![r] = "get_description"]
          /\ http' = http
       \/ /\ body[r].kind = "malformed"
          /\ http' = [http EXCEPT ![r] = ErrorResponse(400)]
          /\ pc' = [pc EXCEPT ![r] = "done"]
          /\ data' = data
       \/ \* Flask from 2.1 on answers 415
          /\ body[r].kind = "no_json_mimetype"
          /\ http' = [http EXCEPT ![r] = ErrorResponse(415)]
          /\ pc' = [pc EXCEPT ![r] = "done"]
          /\ data' = data
       \/ \* Flask before 2.1 returns None
          /\ body[r].kind = "no_json_mimetype"
          /\ data' = [data EXCEPT ![r] = JNull]
          /\ pc' = [pc EXCEPT ![r] = "get_description"]
          /\ http' = http
    /\ UNCHANGED <<body, description, sent, reply, parsedBody, output,
                   parsed_output, result, raised>>

\* description = data.get("description", "")
GetDescription(r) ==
    /\ pc[r] = "get_description"
    /\ \/ /\ data[r].t = "obj"
          /\ description' =
                [description EXCEPT
                    ![r] = DictGet(data[r], Key("description"), JStr(<< >>))]
          /\ pc' = [pc EXCEPT ![r] = "post"]
          /\ raised' = raised
       \/ \* a list, a str, a number or None has no attribute get
          /\ data[r].t # "obj"
          /\ raised' = [raised EXCEPT ![r] = "AttributeError"]
          /\ pc' = [pc EXCEPT ![r] = "unhandled"]
          /\ description' = description
    /\ UNCHANGED <<body, data, sent, reply, parsedBody, output,
                   parsed_output, result, http>>

\* analyze_system(description): the prompt, then requests.post(...)
Post(r) ==
    /\ pc[r] = "post"
    /\ sent' = [sent EXCEPT
                  ![r] = SendPost(sent[r],
                                  GeneratePayload(Prompt(description[r])))]
    /\ pc' = [pc EXCEPT ![r] = "await"]
    /\ UNCHANGED <<body, data, description, reply, parsedBody, output,
                   parsed_output, result, raised, http>>

\* requests.post returns a response or raises (connection refused, timeout).
Receive(r, replies) ==
    /\ pc[r] = "await"
    /\ \E rep \in replies :
        /\ reply' = [reply EXCEPT ![r] = rep]
        /\ \/ /\ rep.kind = "http"
              /\ pc' = [pc EXCEPT ![r] = "raise_for_status"]
              /\ parsed_output' = parsed_output
           \/ \* except requests.exceptions.RequestException as e
              /\ rep.kind = "exc"
              /\ parsed_output' =
                    [parsed_output EXCEPT ![r] = CommunicationError(rep.cause)]
              /\ pc' = [pc EXCEPT ![r] = "return"]
    /\ UNCHANGED <<body, data, description, sent, parsedBody, output,
                   result, raised, http>>

\* response.raise_for_status()
RaiseForStatus(r) ==
    /\ pc[r] = "raise_for_status"
    /\ \/ /\ ~IsErrorStatus(reply[r].status)
          /\ pc' = [pc EXCEPT ![r] = "response_json"]
          /\ parsed_output' = parsed_output
       \/ \* except requests.exceptions.RequestException as e
          /\ IsErrorStatus(reply[r].status)
          /\ parsed_output' =
                [parsed_output EXCEPT
                    ![r] = CommunicationError(HTTPErrorText(reply[r].status))]
          /\ pc' = [pc EXCEPT ![r] = "return"]
    /\ UNCHANGED <<body, data, description, sent, reply, parsedBody, output,
                   result, raised, http>>

\* output = response.json()["response"]
ResponseJson(r) ==
    /\ pc[r] = "response_json"
    /\ parsedBody' = [parsedBody EXCEPT ![r] = TRUE]
    /\ \/ /\ reply[r].body.kind = "json"
          /\ reply[r].body.value.t = "obj"
          /\ Key("response") \in DOMAIN reply[r].body.value.members
          /\ output' =
                [output EXCEPT
                    ![r] = reply[r].body.value.members[Key("response")]]
          /\ pc' = [pc EXCEPT ![r] = "json_loads"]
          /\ UNCHANGED <<parsed_output, raised>>
       \/ /\ reply[r].body.kind = "json"
          /\ reply[r].body.value.t = "obj"
          /\ Key("response") \notin DOMAIN reply[r].body.value.members
          /\ raised' = [raised EXCEPT ![r] = "KeyError"]
          /\ pc' = [pc EXCEPT ![r] = "unhandled"]
          /\ UNCHANGED <<output, parsed_output>>
       \/ \* a list or None indexed by "response"
          /\ reply[r].body.kind = "json"
          /\ reply[r].body.value.t # "obj"
          /\ raised' = [raised EXCEPT ![r] = "TypeError"]
          /\ pc' = [pc EXCEPT ![r] = "unhandled"]
          /\ UNCHANGED <<output, parsed_output>>
       \/ \* response.json() raises on a body that is not JSON
          /\ reply[r].body.kind = "nonjson"
          /\ pc' = [pc EXCEPT ![r] = "body_decode_error"]
          /\ UNCHANGED <<output, parsed_output, raised>>
    /\ UNCHANGED <<body, data, description, sent, reply, result, http>>

\* The exception response.json() raised meets the except clause.
BodyDecodeError(r) ==
    /\ pc[r] = "body_decode_error"
    /\ \/ \* requests from 2.27 on: requests.exceptions.JSONDecodeError,
          \* a RequestException, caught by the outer except
          /\ parsed_output' =
                [parsed_output EXCEPT
                    ![r] = CommunicationError(BodyDecodeErrorText)]
          /\ pc' = [pc EXCEPT ![r] = "return"]
          /\ raised' = raised
       \/ \* requests before 2.27: a ValueError, which no except catches
          /\ raised' = [raised EXCEPT ![r] = "ValueError"]
          /\ pc' = [pc EXCEPT ![r] = "unhandled"]
          /\ parsed_output' = parsed_output
    /\ UNCHANGED <<body, data, description, sent, reply, parsedBody, output,
                   result, http>>

\* parsed_output = json.loads(output), or the parse-failure object
JsonLoadsOutput(r) ==
    /\ pc[r] = "json_loads"
    /\ \/ /\ output[r].t = "str"
          /\ parsed_output' =
                [parsed_output EXCEPT ![r] = ParsedOutput(output[r])]
          /\ pc' = [pc EXCEPT ![r] = "return"]
          /\ raised' = raised
       \/ \* json.loads takes str, bytes or bytearray only
          /\ output[r].t # "str"
          /\ raised' = [raised EXCEPT ![r] = "TypeError"]
          /\ pc' = [pc EXCEPT ![r] = "unhandled"]
          /\ parsed_output' = parsed_output
    /\ UNCHANGED <<body, data, description, sent, reply, parsedBody, output,
                   result, http>>

\* return {"input_description": description, "analysis": parsed_output}
Return(r) ==
    /\ pc[r] = "return"
    /\ result' = [result EXCEPT
                    ![r] = Envelope(description[r], ParsedOutputOf(r))]
    /\ pc' = [pc EXCEPT ![r] = "jsonify"]
    /\ UNCHANGED <<body, data, description, sent, reply, parsedBody, output,
                   parsed_output, raised, http>>

\* return jsonify(result)
Jsonify(r) ==
    /\ pc[r] = "jsonify"
    /\ http' = [http EXCEPT ![r] = Jsonified(result[r])]
    /\ pc' = [pc EXCEPT ![r] = "done"]
    /\ UNCHANGED <<body, data, description, sent, reply, parsedBody, output,
                   parsed_output, result, raised>>

\* An exception left analyze(): Flask answers 500.
Unhandled(r) ==
    /\ pc[r] = "unhandled"
    /\ http' = [http EXCEPT ![r] = ErrorResponse(500)]
    /\ pc' = [pc EXCEPT ![r] = "done"]
    /\ UNCHANGED <<body, data, description, sent, reply, parsedBody, output,
                   parsed_output, result, raised>>

Step(r, bodies, replies) ==
    \/ Arrive(r, bodies)
    \/ GetJson(r)
    \/ GetDescription(r)
    \/ Post(r)
    \/ Receive(r, replies)
    \/ RaiseForStatus(r)
    \/ ResponseJson(r)
    \/ BodyDecodeError(r)
    \/ JsonLoadsOutput(r)
    \/ Return(r)
    \/ Jsonify(r)
    \/ Unhandled(r)

Init == InitFor(SoloRequests)

Next == \E r \in SoloRequests : Step(r, AllBodies, AllReplies)

Spec == Init /\ [][Next]_vars

ConcInit == InitFor(ConcRequests)

ConcNext == \E r \in ConcRequests : Step(r, ConcBodies, ConcReplies)

ConcSpec == ConcInit /\ [][ConcNext]_vars


(***************************************************************************)
(* Properties                                                              *)
(***************************************************************************)
Requests == DOMAIN pc

\* analyze_system has returned its envelope.
Returned(r) == result[r] # NoneVal

\* analyze_system was left by an exception.
RaisedInClient(r) == raised[r] \in {"KeyError", "TypeError", "ValueError"}

\* The response carries the envelope.
Answered200(r) == http[r] # NoneVal /\ http[r].status = 200

CommunicationPrefix == "Communication with Ollama failed: "

\* {"error": "Communication with Ollama failed: " + cause}, and no other key.
IsCommunicationError(a, cause) ==
    /\ a.t = "obj"
    /\ DOMAIN a.members = {Key("error")}
    /\ a.members[Key("error")] = [t |-> "str", s |-> <<CommunicationPrefix>> \o cause]

\* {"error": "Failed to parse JSON from LLM", "raw_llm_output": text}
IsParseError(a, text) ==
    /\ a.t = "obj"
    /\ DOMAIN a.members = {Key("error"), Key("raw_llm_output")}
    /\ a.members[Key("error")] = [t |-> "str", s |-> <<"Failed to parse JSON from LLM">>]
    /\ a.members[Key("raw_llm_output")] = [t |-> "str", s |-> text]

\* The cause the error message ends with.
CauseOf(rep) ==
    IF rep.kind = "exc" THEN rep.cause
    ELSE <<ToString(rep.status),
           IF rep.status < 500 THEN "Client Error" ELSE "Server Error">>

\* C1: whenever analyze_system(d) has returned, after a transport failure, a
\* parse failure or a successful parse alike, the envelope's
\* input_description is d itself, "" included, and so is the one of the JSON
\* response built from it.
C1_InputDescriptionIsArgument ==
    \A r \in Requests :
        /\ Returned(r) => result[r].input_description = description[r]
        /\ Answered200(r) => http[r].json.input_description = description[r]

C1_Witness ==
    \E r \in Requests :
        /\ Returned(r)
        /\ description[r] = [t |-> "str", s |-> << >>]
        /\ result[r].input_description = [t |-> "str", s |-> << >>]
        /\ output[r] # NoneVal
        /\ output[r].t = "str"
        /\ IsParseError(result[r].analysis, output[r].s)

\* C2: once analyze_system has issued its POST and the call is over, it has
\* returned an envelope and was not left by an exception, whatever the
\* inference service did.
C2_AnalyzeSystemNeverRaises ==
    \A r \in Requests :
        /\ ~RaisedInClient(r)
        /\ (sent[r] # << >> /\ pc[r] = "done") => Returned(r)

\* C3: every request to /analyze, whatever its body and whatever the
\* inference service did, is answered 200 with the envelope, and no exception
\* leaves the view.
C3_Always200 ==
    \A r \in Requests :
        /\ raised[r] = ""
        /\ pc[r] = "done" => (http[r].status = 200 /\ Returned(r))

\* What C4 promises for request r once the call is over.
TransportFailureAbsorbed(r) ==
    /\ ~parsedBody[r]
    /\ Len(sent[r]) = 1
    /\ ~RaisedInClient(r)
    /\ pc[r] \in {"jsonify", "done"} =>
        /\ Returned(r)
        /\ IsCommunicationError(result[r].analysis, CauseOf(reply[r]))

\* C4 as stated: a connection failure, a timeout or any status outside
\* 200..299 ends in the communication-failure object, the reply's body is
\* never parsed and the POST is not repeated.
C4_NonSuccessStatusIsFailure ==
    \A r \in Requests :
        (/\ reply[r] # NoneVal
         /\ \/ reply[r].kind = "exc"
            \/ reply[r].status \notin 200..299)
        => TransportFailureAbsorbed(r)

\* C4 (amended): a connection failure, a timeout or a 4xx/5xx status ends in
\* the envelope whose analysis is {"error": "Communication with Ollama
\* failed: " + cause} with no other key; the body of a 4xx/5xx reply is never
\* parsed and the POST is issued once only.
C4_ErrorStatusIsFailure ==
    \A r \in Requests :
        (/\ reply[r] # NoneVal
         /\ \/ reply[r].kind = "exc"
            \/ reply[r].status \in 400..599)
        => TransportFailureAbsorbed(r)

C4_Witness ==
    \E r \in Requests :
        /\ pc[r] = "done"
        /\ reply[r] # NoneVal
        /\ reply[r].kind = "http"
        /\ reply[r].status = 404
        /\ reply[r].body.kind = "json"
        /\ IsCommunicationError(http[r].json.analysis, <<"404", "Client Error">>)

\* A text of the RFC 8259 grammar: the decoder's grammar without the
\* literals NaN, Infinity and -Infinity.
IsValidJson(text) == ParseDocument(text, FALSE).ok

\* The inference service answered 2xx with a JSON object whose response
\* field is a text.
RespondedWithText(r) ==
    /\ reply[r] # NoneVal
    /\ reply[r].kind = "http"
    /\ reply[r].status \in 200..299
    /\ reply[r].body.kind = "json"
    /\ reply[r].body.value.t = "obj"
    /\ Key("response") \in DOMAIN reply[r].body.value.members
    /\ reply[r].body.value.members[Key("response")].t = "str"

ResponseText(r) == reply[r].body.value.members[Key("response")].s

\* C5: whenever the inference service answered successfully with a text that
\* is not valid JSON, the envelope's analysis is {"error": "Failed to parse
\* JSON from LLM", "raw_llm_output": t} with t the text as received.
C5_InvalidJsonIsParseError ==
    \A r \in Requests :
        (RespondedWithText(r) /\ ~IsValidJson(ResponseText(r)) /\ Returned(r))
        => IsParseError(result[r].analysis, ResponseText(r))

\* C6: whenever the call succeeded and json.loads accepts the returned text,
\* parsed_output and the envelope's analysis are the parsed value itself, no
\* key added, removed or required, and no exception is raised; the text of
\* the three-list example parses to the three-list object.
C6_ParsedValuePassesThrough ==
    \A r \in Requests :
        (/\ pc[r] \in {"return", "jsonify", "done"}
         /\ output[r] # NoneVal
         /\ output[r].t = "str"
         /\ JsonLoads(output[r].s).ok)
        => /\ parsed_output[r] = JsonLoads(output[r].s).val
           /\ raised[r] = ""
           /\ Returned(r) => result[r].analysis = JsonLoads(output[r].s).val
           /\ pc[r] = "done" =>
                (Answered200(r)
                 /\ http[r].json.analysis = JsonLoads(output[r].s).val)
           /\ output[r].s = ExampleText => parsed_output[r] = ExampleObject

C6_Witness ==
    \E r \in Requests :
        /\ pc[r] = "done"
        /\ RespondedWithText(r)
        /\ output[r].s = <<"{", "\"hazard\"", ":", "\"H1\"", "}">>
        /\ Answered200(r)
        /\ http[r].json.analysis.t = "obj"
        /\ DOMAIN http[r].json.analysis.members = {Key("hazard")}
        /\ http[r].json.analysis.members[Key("hazard")] = [t |-> "str", s |-> <<"H1">>]

\* An object with the three lists of strings.
IsThreeLists(a) ==
    /\ a.t = "obj"
    /\ DOMAIN a.members =
          {Key("system_losses"), Key("associated_hazards"),
           Key("unsafe_control_actions")}
    /\ \A k \in DOMAIN a.members :
          /\ a.members[k].t = "list"
          /\ \A i \in 1..Len(a.members[k].items) :
                a.members[k].items[i].t = "str"

\* An object whose error member is a text.
IsErrorObject(a) ==
    /\ a.t = "obj"
    /\ Key("error") \in DOMAIN a.members
    /\ DOMAIN a.members \subseteq {Key("error"), Key("raw_llm_output")}
    /\ a.members[Key("error")].t = "str"

\* C7 as stated: the analysis of every envelope answered is a JSON object,
\* the three lists or one of the two error objects.
C7_AnalysisIsObject ==
    \A r \in Requests :
        Answered200(r) =>
            /\ http[r].json.analysis.t = "obj"
            /\ \/ IsThreeLists(http[r].json.analysis)
               \/ IsErrorObject(http[r].json.analysis)

\* C7 (amended): the analysis of every envelope answered is the
\* communication-failure object when no text was obtained, and otherwise the
\* parse-failure object carrying the text, or the value json.loads returned
\* for the text, whatever its type.
C7_AnalysisIsErrorObjectOrParsedValue ==
    \A r \in Requests :
        Answered200(r) =>
            LET a == http[r].json.analysis IN
            IF output[r] = NoneVal
            THEN /\ a.t = "obj"
                 /\ DOMAIN a.members = {Key("error")}
                 /\ a.members[Key("error")].t = "str"
                 /\ Head(a.members[Key("error")].s) = CommunicationPrefix
            ELSE /\ output[r].t = "str"
                 /\ IF JsonLoads(output[r].s).ok
                    THEN a = JsonLoads(output[r].s).val
                    ELSE IsParseError(a, output[r].s)

C7_Witness ==
    \E r \in Requests :
        /\ Answered200(r)
        /\ RespondedWithText(r)
        /\ output[r].s = <<"[", "]">>
        /\ http[r].json.analysis.t = "list"

\* The description field of a JSON object body, "" when it has none.
DescriptionField(b) ==
    IF Key("description") \in DOMAIN b.value.members
    THEN b.value.members[Key("description")]
    ELSE [t |-> "str", s |-> << >>]

\* C8: a request whose JSON body is an object is answered with the envelope
\* whose input_description is the body's description field, "" when the
\* body has none, and the Analysis Client was called with that value.
C8_DescriptionDefaultsToEmpty ==
    \A r \in Requests :
        (pc[r] = "done" /\ body[r].kind = "json" /\ body[r].value.t = "obj")
        => /\ description[r] = DescriptionField(body[r])
           /\ Answered200(r)
           /\ http[r].json.input_description = DescriptionField(body[r])

\* The call of analyze_system is over: it returned or was left by an exception.
CallOver(r) == Returned(r) \/ RaisedInClient(r)

\* C9: analyze_system never issues more than one POST; once the call is
\* over, in every outcome, exactly one was issued, to /api/generate with
\* model "mistral", stream false, format "json" and the prompt built from
\* the description, and the inference service's reply or failure was
\* received before the envelope was built.
C9_ExactlyOnePost ==
    \A r \in Requests :
        /\ Len(sent[r]) <= 1
        /\ (parsed_output[r] # NoneVal \/ CallOver(r)) =>
            /\ Len(sent[r]) = 1
            /\ reply[r] # NoneVal
            /\ sent[r][1].url = "http://localhost:11434/api/generate"
            /\ sent[r][1].model = "mistral"
            /\ sent[r][1].stream = FALSE
            /\ sent[r][1].format = "json"
            /\ sent[r][1].prompt[2] = description[r]

C9_Witness ==
    \E r \in Requests :
        /\ pc[r] = "done"
        /\ Returned(r)
        /\ RespondedWithText(r)
        /\ IsParseError(result[r].analysis, NotJsonText)
        /\ Len(sent[r]) = 1

\* The analysis the reply to a request's own POST determines.
OwnAnalysis(rep) ==
    IF rep.kind = "exc" THEN CommunicationError(rep.cause)
    ELSE IF rep.status \in 400..599
         THEN CommunicationError(CauseOf(rep))
    ELSE IF rep.body.kind = "nonjson"
         THEN CommunicationError(BodyDecodeErrorText)
    ELSE ParsedOutput(rep.body.value.members[Key("response")])

\* Request r's entries of the state.
Locals(r) ==
    <<pc[r], body[r], data[r], description[r], sent[r], reply[r],
      parsedBody[r], output[r], parsed_output[r], result[r], raised[r],
      http[r]>>

LocalsAfter(r) ==
    <<pc'[r], body'[r], data'[r], description'[r], sent'[r], reply'[r],
      parsedBody'[r], output'[r], parsed_output'[r], result'[r], raised'[r],
      http'[r]>>

OwnResponse ==
    \A r \in Requests :
        /\ Returned(r) =>
            /\ result[r].input_description = DescriptionField(body[r])
            /\ result[r].analysis = OwnAnalysis(reply[r])
        /\ Answered200(r) => http[r].json = result[r]
        /\ (pc[r] = "done" /\ ~Answered200(r)) =>
            /\ http[r].status = 500
            /\ \/ /\ raised[r] = "KeyError"
                  /\ reply[r].body.kind = "json"
                  /\ Key("response") \notin DOMAIN reply[r].body.value.members
               \/ /\ raised[r] = "ValueError"
                  /\ reply[r].body.kind = "nonjson"

OwnStateOnly ==
    \A r \in Requests : pc'[r] = pc[r] => LocalsAfter(r) = Locals(r)

\* C10: with several requests in flight, under every interleaving, each
\* envelope's input_description is its own request's description and its
\* analysis is the one the reply to its own POST determines, a failed
\* request failed on its own reply, and a step of one request leaves every
\* other request's state as it was.
C10_RequestsIndependent == []OwnResponse /\ [][OwnStateOnly]_vars

C10_Witness ==
    \E r, q \in Requests :
        /\ r # q
        /\ Answered200(r)
        /\ pc[q] = "return"
        /\ sent[q] # << >>
        /\ description[q] # description[r]
        /\ parsed_output[q] # parsed_output[r]
        /\ http[r].json.analysis = ExampleObject

====
